---- MODULE Spec2Model ----
(***************************************************************************)
(* Model of the Pokemon API service (POC-sem5/app) and of its companion    *)
(* monitoring bot (monitoringbot.py).                                      *)
(*                                                                         *)
(*   Spec      the HTTP service after a successful start-up: one request   *)
(*             at a time travels through the log_requests middleware and   *)
(*             the route handler (search, image-alt, health).              *)
(*   SpecBoot  the import-time start-up sequence: Settings(), then         *)
(*             create_client(), then the lifespan, then serving.           *)
(*   SpecBot   the monitoring bot: its menu, prompts, probes, sampling      *)
(*             loops, reports and graphs of generated data.                *)
(*   SpecGraph _draw_ascii_graph alone, on any short list of samples.      *)
(***************************************************************************)
EXTENDS Integers, Sequences, FiniteSets, TLC

VARIABLES
    \* ---- start-up (core/config.py, core/database.py, main.py lifespan)
    environ,        \* process environment: variable name -> value or Unset
    dotenv,         \* the ".env" file:      variable name -> value or Unset
    validate_default, \* whether this build of the settings library validates defaults
    settings,       \* the Settings object (or NoSettings before it is built)
    boot_pc,        \* "config" | "database" | "lifespan" | "serving" | "failed"
    \* ---- the world the service reads
    stats_table,    \* rows of the store's "stats" table, in the store's order
    store_reachable,\* whether the store answers queries right now
    image_files,    \* file names present in IMAGE_FOLDER (case-sensitive)
    \* ---- the request in flight
    pc,             \* position of the request inside middleware / handler
    req,            \* the request: [route, name]
    remote,         \* the remote API's answer to client.get (or NoValue)
    data,           \* response.json() (or NoValue)
    stats,          \* result of get_stats_from_db (or NoValue)
    image_url,      \* result of get_image_url (or NoValue)
    result,         \* what the route handler returned (or NoValue)
    exc,            \* exception travelling up from the handler ("none" if none)
    response,       \* HTTP response sent to the client (or NoValue)
    steps,          \* outbound calls made for this request, in order
    log,            \* api_logger lines emitted for this request, in order
    \* ---- the monitoring bot (monitoringbot.py)
    running,        \* MonitoringBot.running
    bot_pc,         \* where the bot is: menu, a sampling loop, a report, exited
    results,        \* check_latency's local list of RequestResult
    now,            \* seconds since the running check_latency started
    end_time,       \* check_latency's end_time, on the same clock
    total_requests, \* check_availability's number of probes to issue
    probe_i,        \* check_availability's loop index i
    success_count,  \* check_availability's success_count
    error_count,    \* check_availability's error_count
    last_probe,     \* the latest probe: what the transport did, what came back
    report,         \* what the handler printed last: a report, a message (or NoValue)
    monitor_results,\* APIMonitor.results
    choice,         \* the menu choice run() read last ("" before the first)
    typed,          \* the line typed at the handler's numeric prompt
    interrupted,    \* a Ctrl+C was delivered since the menu was last shown
    graph_data,     \* _draw_ascii_graph's data
    graph,          \* _draw_ascii_graph's grid: row -> column -> character
    point_i         \* _draw_ascii_graph's loop index i

vars == << environ, dotenv, validate_default, settings, boot_pc,
           stats_table, store_reachable, image_files,
           pc, req, remote, data, stats, image_url, result, exc, response,
           steps, log,
           running, bot_pc, results, now, end_time, total_requests, probe_i,
           success_count, error_count, last_probe, report,
           monitor_results, choice, typed, interrupted,
           graph_data, graph, point_i >>

bootVars == << environ, dotenv, validate_default, settings, boot_pc >>
worldVars == << stats_table, store_reachable, image_files >>
reqVars == << pc, req, remote, data, stats, image_url, result, exc, response,
              steps, log >>
probeVars == << results, now, end_time, total_requests, probe_i,
                success_count, error_count, last_probe >>
graphVars == << graph_data, graph, point_i >>
botVars == << running, bot_pc, probeVars, report, monitor_results, choice,
              typed, interrupted, graphVars >>
serviceVars == << bootVars, worldVars, reqVars >>

(***************************************************************************)
(* Bounds of the model.                                                    *)
(***************************************************************************)
MaxNameLen == 2     \* longest requested name, in characters
MaxRows == 2        \* most rows in the store's table

(***************************************************************************)
(* Values.  Python values that may be of several types are tagged.         *)
(***************************************************************************)
NoValue == [t |-> "novalue"]
None == [t |-> "none"]
IntVal(i) == [t |-> "int", v |-> i]
StrVal(s) == [t |-> "str", v |-> s]

\* Characters of names: lower case, upper case, and LIKE's wildcard.
Chars == {"a", "A", "%"}

\* str.lower() on one character and on a string (a sequence of characters).
LowerChar(c) == IF c = "A" THEN "a" ELSE c

Lower(s) == [i \in 1..Len(s) |-> LowerChar(s[i])]

RECURSIVE SeqsUpTo(_, _)
SeqsUpTo(S, n) ==
    IF n = 0 THEN {<<>>}
    ELSE LET shorter == SeqsUpTo(S, n - 1)
         IN  shorter \cup {Append(s, x) : s \in shorter, x \in S}

Names == SeqsUpTo(Chars, MaxNameLen) \ {<<>>}

(***************************************************************************)
(* The store: table "stats".  Its rows carry a Name and six numeric        *)
(* columns; a column of a row may be NULL.                                 *)
(***************************************************************************)
StatKeys == << "HP", "Attack", "Defense", "Sp. Atk", "Sp. Def", "Speed" >>

Row(name, s) ==
    [k \in {"Name"} \cup {StatKeys[i] : i \in 1..6} |->
        IF k = "Name" THEN StrVal(name)
        ELSE s[CHOOSE i \in 1..6 : StatKeys[i] = k]]

CandidateRows ==
    { Row(<<"A">>, [i \in 1..6 |-> IntVal(10 * i)]),
      Row(<<"a">>, [i \in 1..6 |-> IntVal(7 - i)]),
      Row(<<"A", "a">>, [i \in 1..6 |-> IF i = 1 THEN None ELSE IntVal(i)]) }

Tables == SeqsUpTo(CandidateRows, MaxRows)

\* dict.get(key): the value under key, None when the key is absent.
Get(record, key) == IF key \in DOMAIN record THEN record[key] ELSE None

\* SQL ILIKE: pattern against text, ignoring case; "%" matches any run of
\* characters (PostgREST's .ilike("Name", search_name)).
RECURSIVE ILike(_, _)
ILike(pattern, text) ==
    IF pattern = <<>> THEN text = <<>>
    ELSE IF Head(pattern) = "%"
         THEN \/ ILike(Tail(pattern), text)
              \/ text # <<>> /\ ILike(pattern, Tail(text))
         ELSE /\ text # <<>>
              /\ LowerChar(Head(pattern)) = LowerChar(Head(text))
              /\ ILike(Tail(pattern), Tail(text))

\* supabase.table("stats").select("*").ilike("Name", search_name).execute():
\* response.data, the matching rows in table order.
QueryStats(table, search_name) ==
    SelectSeq(table, LAMBDA r : ILike(search_name, r["Name"].v))

(***************************************************************************)
(* The remote API (external).  It knows the creatures of Pokedex by their  *)
(* lower-case names and answers 200 with a document carrying the canonical *)
(* name, or 404 with the plain text "Not Found"; it may also be degraded   *)
(* and answer with an error status, whose body is text or an error         *)
(* document.                                                               *)
(***************************************************************************)
Pokedex == { <<"a">> }

TextBody == [kind |-> "text"]
JsonBody(doc) == [kind |-> "json", doc |-> doc]

ErrorName == <<"E">>

RemoteAnswers(lowered) ==
    (IF lowered \in Pokedex
     THEN { [status |-> 200, body |-> JsonBody("name" :> StrVal(lowered))] }
     ELSE { [status |-> 404, body |-> TextBody] })
    \cup
    { [status |-> 503, body |-> TextBody],
      [status |-> 503, body |-> JsonBody("detail" :> StrVal(ErrorName))],
      [status |-> 404, body |-> JsonBody("name" :> StrVal(ErrorName))] }

Is2xx(status) == status >= 200 /\ status < 300

(***************************************************************************)
(* The image directory: "{name}.png" files.                                *)
(***************************************************************************)
PngName(name) == name \o << ".png" >>

CandidateFiles == { PngName(<<"a">>), PngName(<<"A">>) }

(***************************************************************************)
(* Data Store Client and Image URL Deriver (features/search/repositories). *)
(***************************************************************************)
BaseUrl == "http://localhost:8000"

\* Mutant of get_stats_from_db: the last matching row is used.
get_stats_from_db_last(table, pokemon_name) ==
    LET search_name == Lower(pokemon_name)
        response_data == QueryStats(table, search_name)
    IN  IF response_data # <<>>
        THEN LET record == response_data[Len(response_data)]
             IN  [i \in 1..6 |-> Get(record, StatKeys[i])]
        ELSE <<>>

\* get_stats_from_db, on a store that answers: the first matching row's six
\* columns, or the empty list.
get_stats_from_db(table, pokemon_name) ==
    LET search_name == Lower(pokemon_name)
        response_data == QueryStats(table, search_name)
    IN  IF response_data # <<>>
        THEN LET record == response_data[1]
             IN  [i \in 1..6 |-> Get(record, StatKeys[i])]
        ELSE <<>>

\* get_image_url: f"{base_url}/images/{pokemon_name.lower()}/0.jpg"
get_image_url(pokemon_name, base_url) ==
    << base_url, "/images/" >> \o Lower(pokemon_name) \o << "/0.jpg" >>

\* Mutant of SearchResponseValid: a stats list must hold six values.
SearchResponseValid_six(r) ==
    /\ r.name.t = "str"
    /\ Len(r.stats) = 6
    /\ \A i \in 1..Len(r.stats) : r.stats[i].t = "int"

\* SearchResponse (response_model): name is a str, stats a list of int,
\* image a str.
SearchResponseValid(r) ==
    /\ r.name.t = "str"
    /\ \A i \in 1..Len(r.stats) : r.stats[i].t = "int"

(***************************************************************************)
(* HTTP layer: the log_requests middleware (main.py) around the routes.    *)
(***************************************************************************)
Routes == {"search", "image-alt", "health"}

Requests ==
    { [route |-> "search", name |-> n] : n \in Names } \cup
    { [route |-> "image-alt", name |-> n] : n \in Names } \cup
    { [route |-> "health", name |-> <<>>] }

NoRequest == [route |-> "none", name |-> <<>>]

\* Mutant of RouteEntry: search starts at the store lookup.
RouteEntry_statsFirst(route) ==
    CASE route = "search" -> "search_stats"
      [] route = "image-alt" -> "image_alt"
      [] route = "health" -> "health"

\* Where call_next enters the route of a request.
RouteEntry(route) ==
    CASE route = "search" -> "search_get"
      [] route = "image-alt" -> "image_alt"
      [] route = "health" -> "health"

\* log_requests, entry: logs "Incoming request", then awaits call_next.
Receive(r) ==
    /\ boot_pc = "serving"
    /\ pc \in {"idle", "done"}
    /\ req' = r
    /\ log' = << "Incoming request" >>
    /\ pc' = RouteEntry(r.route)
    /\ remote' = NoValue /\ data' = NoValue /\ stats' = NoValue
    /\ image_url' = NoValue /\ result' = NoValue /\ response' = NoValue
    /\ exc' = "none" /\ steps' = << >>
    /\ UNCHANGED << botVars, bootVars, worldVars >>

\* An exception leaves the route: it travels up through call_next.
Raise(e) ==
    /\ exc' = e
    /\ pc' = "mw_except"

\* search_pokemon, line 7: response = await client.get(poke_api_url).
\* A transport failure raises; any HTTP answer, 2xx or not, is returned.
SearchRemoteGet ==
    /\ pc = "search_get"
    /\ steps' = Append(steps, "remote_get")
    /\ \/ /\ Raise("ConnectError")
          /\ UNCHANGED remote
       \/ /\ remote' \in RemoteAnswers(Lower(req.name))
          /\ pc' = "search_json"
          /\ UNCHANGED exc
    /\ UNCHANGED << botVars, bootVars, worldVars, req, data, stats, image_url, result,
                    response, log >>

\* search_pokemon, line 8: data = response.json().
SearchJson ==
    /\ pc = "search_json"
    /\ IF remote.body.kind = "json"
       THEN /\ data' = remote.body.doc
            /\ pc' = "search_stats"
            /\ UNCHANGED exc
       ELSE /\ Raise("JSONDecodeError")
            /\ UNCHANGED data
    /\ UNCHANGED << botVars, bootVars, worldVars, req, remote, stats, image_url, result,
                    response, steps, log >>

\* search_pokemon, line 11: stats = get_stats_from_db(name).  The store's
\* error is logged and re-raised by get_stats_from_db.
SearchStats ==
    /\ pc = "search_stats"
    /\ steps' = Append(steps, "store_query")
    /\ IF store_reachable
       THEN /\ stats' = get_stats_from_db(stats_table, req.name)
            /\ pc' = "search_url"
            /\ UNCHANGED exc
       ELSE /\ Raise("StoreError")
            /\ UNCHANGED stats
    /\ UNCHANGED << botVars, bootVars, worldVars, req, remote, data, image_url, result,
                    response, log >>

\* search_pokemon, line 12: image_url = get_image_url(name).
SearchImageUrl ==
    /\ pc = "search_url"
    /\ steps' = Append(steps, "image_url")
    /\ image_url' = get_image_url(req.name, BaseUrl)
    /\ pc' = "search_return"
    /\ UNCHANGED << botVars, bootVars, worldVars, req, remote, data, stats, result, exc,
                    response, log >>

\* search_pokemon, lines 14-18, and the route's response_model: the dict is
\* built from data["name"], then validated and sent with status 200.
SearchReturn ==
    /\ pc = "search_return"
    /\ IF "name" \notin DOMAIN data
       THEN /\ Raise("KeyError")
            /\ UNCHANGED result
       ELSE LET body == [name |-> data["name"], stats |-> stats,
                         image |-> image_url]
            IN  IF SearchResponseValid(body)
                THEN /\ result' = [status |-> 200, media_type |-> "application/json",
                                   body |-> body]
                     /\ pc' = "mw_return"
                     /\ UNCHANGED exc
                ELSE /\ Raise("ResponseValidationError")
                     /\ UNCHANGED result
    /\ UNCHANGED << botVars, bootVars, worldVars, req, remote, data, stats, image_url,
                    response, steps, log >>

\* Mutant of get_image_fallback: the name is not lowered.
get_image_fallback_asgiven(files, pokemon_name) ==
    LET filename == PngName(pokemon_name)
    IN  IF filename \in files
        THEN [status |-> 200, media_type |-> "image/png", body |-> filename]
        ELSE [status |-> 404, media_type |-> "application/json",
              body |-> [detail |-> "Image not found"]]

\* get_image_fallback (features/poke_img/routes.py): the name is lowered,
\* and the file is served when the path exists; the HTTPException raised
\* otherwise is the route's typed 404 answer, which call_next returns to
\* the middleware as a response.
get_image_fallback(files, pokemon_name) ==
    LET filename == PngName(Lower(pokemon_name))
    IN  IF filename \in files
        THEN [status |-> 200, media_type |-> "image/png", body |-> filename]
        ELSE [status |-> 404, media_type |-> "application/json",
              body |-> [detail |-> "Image not found"]]

ImageAlt ==
    /\ pc = "image_alt"
    /\ result' = get_image_fallback(image_files, req.name)
    /\ pc' = "mw_return"
    /\ UNCHANGED << botVars, bootVars, worldVars, req, remote, data, stats, image_url,
                    exc, response, steps, log >>

\* get_supabase (core/database.py): returns the module-level client built
\* at import time; it sends nothing to the store and cannot fail.
get_supabase == "returned"

\* health_check (main.py): the try block calls get_supabase() only.
health_check ==
    IF get_supabase = "returned"
    THEN [status |-> "healthy", service |-> "pokemon-api",
          database |-> "connected"]
    ELSE [status |-> "unhealthy", service |-> "pokemon-api",
          database |-> "disconnected", error |-> "error"]

HealthCheck ==
    /\ pc = "health"
    /\ result' = [status |-> 200, media_type |-> "application/json",
                  body |-> health_check]
    /\ log' = log \o << "Starting execution - health_check",
                        "Health check requested",
                        IF health_check.status = "healthy"
                        THEN "Database connection test successful"
                        ELSE "Health check failed",
                        "Completed execution - health_check" >>
    /\ pc' = "mw_return"
    /\ UNCHANGED << botVars, bootVars, worldVars, req, remote, data, stats, image_url,
                    exc, response, steps >>

\* log_requests, lines 64-74: call_next returned a response.
MwReturn ==
    /\ pc = "mw_return"
    /\ log' = Append(log, "Request completed")
    /\ response' = result
    /\ pc' = "done"
    /\ UNCHANGED << botVars, bootVars, worldVars, req, remote, data, stats, image_url,
                    result, exc, steps >>

\* Mutant of MwExcept: the completion line is logged on failure too.
MwExcept_both ==
    /\ pc = "mw_except"
    /\ log' = log \o << "Request failed", "Request completed" >>
    /\ response' = [status |-> 500, media_type |-> "text/plain",
                    body |-> "Internal Server Error"]
    /\ pc' = "done"
    /\ UNCHANGED << botVars, bootVars, worldVars, req, remote, data, stats,
                    image_url, result, exc, steps >>

\* log_requests, lines 76-82: call_next raised; the line is logged and the
\* exception re-raised, which the server answers with its generic 500.
MwExcept ==
    /\ pc = "mw_except"
    /\ log' = Append(log, "Request failed")
    /\ response' = [status |-> 500, media_type |-> "text/plain",
                    body |-> "Internal Server Error"]
    /\ pc' = "done"
    /\ UNCHANGED << botVars, bootVars, worldVars, req, remote, data, stats, image_url,
                    result, exc, steps >>

\* The store becomes unreachable, or reachable again.
StoreFlip ==
    /\ store_reachable' = ~store_reachable
    /\ UNCHANGED << botVars, bootVars, stats_table, image_files, reqVars >>

(***************************************************************************)
(* Start-up: core/config.py builds Settings at import, core/database.py    *)
(* builds the client from it, main.py's lifespan runs, the service serves. *)
(***************************************************************************)
Unset == [t |-> "unset"]

SettingKeys == {"DATABASE_URL", "DATABASE_API_KEY"}

\* What a source may hold for a key: nothing, the empty string, a value.
SourceValues == {Unset, StrVal(""), StrVal("value")}

\* os.getenv(key): the variable's value, None when it is absent.
getenv(env, key) == IF env[key] = Unset THEN None ELSE env[key]

\* One field of Settings(): the process environment wins over the env_file
\* ".env", which wins over the field's default, os.getenv(key).
SettingsField(env, file, key) ==
    IF env[key] # Unset THEN env[key]
    ELSE IF file[key] # Unset THEN file[key]
    ELSE getenv(env, key)

\* Settings(): a value taken from a source is validated as a str; the
\* default is validated only if the build validates defaults.
SettingsError(env, file, validating) ==
    \E key \in SettingKeys :
        /\ SettingsField(env, file, key).t # "str"
        /\ validating

\* Mutant of create_client_error: only the url is checked.
create_client_error_urlonly(url, key) ==
    \/ url.t # "str" \/ url.v = ""

\* create_client(url, key): refuses a missing or empty url or key.
create_client_error(url, key) ==
    \/ url.t # "str" \/ url.v = ""
    \/ key.t # "str" \/ key.v = ""

NoSettings == [t |-> "nosettings"]

\* core/config.py line 11: settings = Settings().
BootConfig ==
    /\ boot_pc = "config"
    /\ IF SettingsError(environ, dotenv, validate_default)
       THEN /\ boot_pc' = "failed"
            /\ UNCHANGED settings
       ELSE /\ settings' = [k \in SettingKeys |-> SettingsField(environ, dotenv, k)]
            /\ boot_pc' = "database"
    /\ UNCHANGED << botVars, environ, dotenv, validate_default, worldVars, reqVars >>

\* core/database.py line 4: supabase = create_client(url, key).
BootDatabase ==
    /\ boot_pc = "database"
    /\ boot_pc' = IF create_client_error(settings["DATABASE_URL"],
                                         settings["DATABASE_API_KEY"])
                  THEN "failed" ELSE "lifespan"
    /\ UNCHANGED << botVars, environ, dotenv, validate_default, settings, worldVars,
                    reqVars >>

\* main.py lifespan, up to the yield: get_supabase() and the start-up logs.
BootLifespan ==
    /\ boot_pc = "lifespan"
    /\ boot_pc' = IF get_supabase = "returned" THEN "serving" ELSE "failed"
    /\ UNCHANGED << botVars, environ, dotenv, validate_default, settings, worldVars,
                    reqVars >>

(***************************************************************************)
(* The monitoring bot (monitoringbot.py).                                  *)
(***************************************************************************)
MaxSamples == 3     \* most probes followed inside one check_latency run

ProbesPerDay == 50
MaxAvailabilityProbes == 100
SleepSeconds == 2

\* What the transport does with one probe: it brings back an HTTP answer,
\* it fails with a requests.RequestException (connection refused, timeout),
\* or the operator's Ctrl+C arrives while the probe is in flight.
ProbeOutcomes ==
    { [kind |-> "response", status_code |-> c] : c \in {200, 201, 404, 503} } \cup
    { [kind |-> "RequestException", status_code |-> 0],
      [kind |-> "KeyboardInterrupt", status_code |-> 0] }

\* Seconds a probe may take (the request's timeout is 30 seconds).
ProbeSeconds == {0, 1, 28}

\* Lines the operator may type at a numeric prompt: nothing (the default is
\* taken), numbers, and lines that are no number.
TypedLines ==
    { << >>, <<"0">>, <<"1">>, <<"-", "1">>, <<"x">>, <<"1", "x">>, <<"-">> }

Digits == << "0", "1", "2", "3", "4", "5", "6", "7", "8", "9" >>

IsDigit(c) == \E k \in 1..10 : Digits[k] = c

DigitValue(c) == (CHOOSE k \in 1..10 : Digits[k] = c) - 1

RECURSIVE DigitsValue(_)
DigitsValue(s) ==
    IF s = << >> THEN 0
    ELSE 10 * DigitsValue(SubSeq(s, 1, Len(s) - 1)) + DigitValue(s[Len(s)])

\* Mutant of ParseInt: a line that is no number is read as 1.
ParseInt_lenient(text) ==
    LET signed == text # << >> /\ text[1] \in {"-", "+"}
        body == IF signed THEN Tail(text) ELSE text
    IN  IF body # << >> /\ \A k \in 1..Len(body) : IsDigit(body[k])
        THEN [ok |-> TRUE,
              value |-> IF signed /\ text[1] = "-"
                        THEN 0 - DigitsValue(body) ELSE DigitsValue(body)]
        ELSE [ok |-> TRUE, value |-> 1]

\* int(text): an optional sign and at least one digit give the number;
\* anything else raises ValueError (ok is FALSE).
ParseInt(text) ==
    LET signed == text # << >> /\ text[1] \in {"-", "+"}
        body == IF signed THEN Tail(text) ELSE text
    IN  IF body # << >> /\ \A k \in 1..Len(body) : IsDigit(body[k])
        THEN [ok |-> TRUE,
              value |-> IF signed /\ text[1] = "-"
                        THEN 0 - DigitsValue(body) ELSE DigitsValue(body)]
        ELSE [ok |-> FALSE, value |-> 0]

\* input(...) or default: the default stands for an empty line.
InputOr(text, default) == IF text = << >> THEN default ELSE text

\* What the handlers print on ValueError.
InvalidInput ==
    [kind |-> "message", text |-> "Invalid input. Please enter valid numbers."]

\* Mutant of test_endpoint: the RequestException is not caught.
test_endpoint_uncaught(outcome, seconds) ==
    CASE outcome.kind = "response" ->
            [raised |-> "none",
             status_code |-> outcome.status_code,
             response_time |-> seconds * 1000,
             success |-> (outcome.status_code = 200)]
      [] OTHER ->
            [raised |-> outcome.kind,
             status_code |-> 0,
             response_time |-> seconds * 1000,
             success |-> FALSE]

\* APIMonitor.test_endpoint: the RequestResult it returns, or the exception
\* that leaves it.  Only requests.RequestException is caught.
test_endpoint(outcome, seconds) ==
    CASE outcome.kind = "response" ->
            [raised |-> "none",
             status_code |-> outcome.status_code,
             response_time |-> seconds * 1000,
             success |-> (outcome.status_code = 200)]
      [] outcome.kind = "RequestException" ->
            [raised |-> "none",
             status_code |-> 500,
             response_time |-> seconds * 1000,
             success |-> FALSE]
      [] OTHER ->
            [raised |-> outcome.kind,
             status_code |-> 0,
             response_time |-> seconds * 1000,
             success |-> FALSE]

RequestResult(r) ==
    [status_code |-> r.status_code, response_time |-> r.response_time,
     success |-> r.success]

Min(a, b) == IF a < b THEN a ELSE b

RECURSIVE SeqMin(_)
SeqMin(s) == IF Len(s) = 1 THEN s[1] ELSE Min(s[1], SeqMin(Tail(s)))

RECURSIVE SeqMax(_)
SeqMax(s) ==
    IF Len(s) = 1 THEN s[1]
    ELSE LET m == SeqMax(Tail(s)) IN IF s[1] > m THEN s[1] ELSE m

RECURSIVE SeqSum(_)
SeqSum(s) == IF s = << >> THEN 0 ELSE s[1] + SeqSum(Tail(s))

\* A quotient num / den, kept exact (den > 0).
Rat(num, den) == [num |-> num, den |-> den]

\* sorted(data)
RECURSIVE Insert(_, _)
Insert(x, s) ==
    IF s = << >> THEN << x >>
    ELSE IF x <= s[1] THEN << x >> \o s
    ELSE << s[1] >> \o Insert(x, Tail(s))

RECURSIVE Sorted(_)
Sorted(s) == IF s = << >> THEN << >> ELSE Insert(s[1], Sorted(Tail(s)))

\* Mutant of Median: the middle element of the data as collected.
Median_unsorted(s) ==
    LET n == Len(s)
    IN  IF n % 2 = 1 THEN Rat(s[(n + 1) \div 2], 1)
        ELSE Rat(s[n \div 2] + s[n \div 2 + 1], 2)

\* statistics.median(data): the middle value of the sorted data, the mean
\* of the two middle values for an even count.
Median(s) ==
    LET n == Len(s)
        d == Sorted(s)
    IN  IF n % 2 = 1 THEN Rat(d[(n + 1) \div 2], 1)
        ELSE Rat(d[n \div 2] + d[n \div 2 + 1], 2)

\* The locals of check_latency and check_availability before the call.
NoProbeLocals ==
    /\ results' = << >> /\ now' = 0 /\ end_time' = 0
    /\ total_requests' = 0 /\ probe_i' = 0
    /\ success_count' = 0 /\ error_count' = 0
    /\ last_probe' = NoValue

\* A handler's "except ValueError": the message, then the closing prompt.
RejectInput ==
    /\ report' = InvalidInput
    /\ bot_pc' = "pause"
    /\ UNCHANGED << running, probeVars, monitor_results, interrupted,
                    graphVars >>

\* run() reads choice "1"; handle_check_latency reads a duration (default
\* "5") and calls check_latency, which sets results, start_time, end_time.
MenuLatency(text) ==
    /\ running /\ bot_pc = "menu"
    /\ choice' = "1"
    /\ typed' = text
    /\ LET duration == ParseInt(InputOr(text, << "5" >>))
       IN  IF duration.ok
           THEN /\ results' = << >>
                /\ now' = 0
                /\ end_time' = duration.value * 60
                /\ last_probe' = NoValue
                /\ bot_pc' = "latency_loop"
                /\ UNCHANGED << running, total_requests, probe_i,
                                success_count, error_count, report,
                                monitor_results, interrupted, graphVars >>
           ELSE RejectInput
    /\ UNCHANGED serviceVars

\* Mutant of LatencyProbe: each sample is also kept in APIMonitor.results.
LatencyProbe_persist(outcome, seconds) ==
    /\ bot_pc = "latency_loop"
    /\ now < end_time
    /\ Len(results) < MaxSamples
    /\ LET r == test_endpoint(outcome, seconds)
       IN  /\ last_probe' = [outcome |-> outcome, result |-> r]
           /\ IF r.raised = "none"
              THEN /\ results' = Append(results, RequestResult(r))
                   /\ monitor_results' =
                         Append(monitor_results, RequestResult(r))
                   /\ now' = now + seconds
                   /\ bot_pc' = "latency_sleep"
                   /\ UNCHANGED interrupted
              ELSE /\ bot_pc' = IF r.raised = "KeyboardInterrupt"
                                THEN "latency_report" ELSE "pause"
                   /\ interrupted' = (r.raised = "KeyboardInterrupt")
                   /\ UNCHANGED << results, now, monitor_results >>
    /\ UNCHANGED << serviceVars, running, end_time, total_requests, probe_i,
                    success_count, error_count, report, choice, typed,
                    graphVars >>

\* check_latency, lines 85-92: one pass of the while loop up to the sleep.
\* A KeyboardInterrupt is caught by check_latency itself (line 96); any
\* other exception would reach handle_check_latency's "except Exception".
LatencyProbe(outcome, seconds) ==
    /\ bot_pc = "latency_loop"
    /\ now < end_time
    /\ Len(results) < MaxSamples
    /\ LET r == test_endpoint(outcome, seconds)
       IN  /\ last_probe' = [outcome |-> outcome, result |-> r]
           /\ IF r.raised = "none"
              THEN /\ results' = Append(results, RequestResult(r))
                   /\ now' = now + seconds
                   /\ bot_pc' = "latency_sleep"
                   /\ UNCHANGED interrupted
              ELSE /\ bot_pc' = IF r.raised = "KeyboardInterrupt"
                                THEN "latency_report" ELSE "pause"
                   /\ interrupted' = (r.raised = "KeyboardInterrupt")
                   /\ UNCHANGED << results, now >>
    /\ UNCHANGED << serviceVars, running, end_time, total_requests, probe_i,
                    success_count, error_count, report, monitor_results,
                    choice, typed, graphVars >>

\* Mutant of LatencySleep: the interrupt is not caught by check_latency.
LatencySleep_uncaught(ctrl_c) ==
    /\ bot_pc = "latency_sleep"
    /\ IF ctrl_c
       THEN /\ bot_pc' = "exited"
            /\ running' = FALSE
            /\ interrupted' = TRUE
            /\ UNCHANGED now
       ELSE /\ now' = now + SleepSeconds
            /\ bot_pc' = "latency_loop"
            /\ UNCHANGED << running, interrupted >>
    /\ UNCHANGED << serviceVars, results, end_time, total_requests,
                    probe_i, success_count, error_count, last_probe, report,
                    monitor_results, choice, typed, graphVars >>

\* Mutant of LatencySleep: the loop does not wait between probes.
LatencySleep_nowait(ctrl_c) ==
    /\ bot_pc = "latency_sleep"
    /\ IF ctrl_c
       THEN /\ bot_pc' = "latency_report"
            /\ interrupted' = TRUE
            /\ UNCHANGED now
       ELSE /\ bot_pc' = "latency_loop"
            /\ UNCHANGED << now, interrupted >>
    /\ UNCHANGED << serviceVars, running, results, end_time, total_requests,
                    probe_i, success_count, error_count, last_probe, report,
                    monitor_results, choice, typed, graphVars >>

\* check_latency, line 94: time.sleep(2), which Ctrl+C may cut short.
LatencySleep(ctrl_c) ==
    /\ bot_pc = "latency_sleep"
    /\ IF ctrl_c
       THEN /\ bot_pc' = "latency_report"
            /\ interrupted' = TRUE
            /\ UNCHANGED now
       ELSE /\ now' = now + SleepSeconds
            /\ bot_pc' = "latency_loop"
            /\ UNCHANGED interrupted
    /\ UNCHANGED << serviceVars, running, results, end_time, total_requests,
                    probe_i, success_count, error_count, last_probe, report,
                    monitor_results, choice, typed, graphVars >>

\* check_latency, line 85: the while condition fails, the loop ends.
LatencyElapsed ==
    /\ bot_pc = "latency_loop"
    /\ ~(now < end_time)
    /\ bot_pc' = "latency_report"
    /\ UNCHANGED << serviceVars, running, probeVars, report, monitor_results,
                    choice, typed, interrupted, graphVars >>

\* check_latency, lines 99-111: the dict it returns, {} (NoValue) when no
\* sample was collected.
LatencyResult(rs) ==
    IF rs # << >>
    THEN LET latencies == [k \in 1..Len(rs) |-> rs[k].response_time]
         IN  [kind |-> "latency",
              total_requests |-> Len(rs),
              avg_latency |-> Rat(SeqSum(latencies), Len(latencies)),
              min_latency |-> SeqMin(latencies),
              max_latency |-> SeqMax(latencies),
              median_latency |-> Median(latencies),
              success_rate |->
                 Rat(Cardinality({k \in 1..Len(rs) : rs[k].success}) * 100,
                     Len(rs))]
    ELSE NoValue

\* handle_check_latency, lines 290-302: the report is printed "if result".
LatencyReport ==
    /\ bot_pc = "latency_report"
    /\ report' = LatencyResult(results)
    /\ bot_pc' = "pause"
    /\ UNCHANGED << serviceVars, running, probeVars, monitor_results, choice,
                    typed, interrupted, graphVars >>

\* Mutant of Classify: every 2xx answer is a success.
Classify_2xx(status_code) ==
    IF status_code >= 200 /\ status_code < 300 THEN "success"
    ELSE IF status_code >= 500 THEN "error"
    ELSE "other"

\* check_availability, lines 126-133: the class of one probe.
Classify(status_code) ==
    IF status_code = 200 THEN "success"
    ELSE IF status_code >= 500 THEN "error"
    ELSE "other"

\* run() reads choice "2"; handle_check_availability reads the days (default
\* "1") and calls check_availability, lines 119-121.
MenuAvailability(text) ==
    /\ running /\ bot_pc = "menu"
    /\ choice' = "2"
    /\ typed' = text
    /\ LET days == ParseInt(InputOr(text, << "1" >>))
       IN  IF days.ok
           THEN /\ total_requests' =
                      Min(MaxAvailabilityProbes, days.value * ProbesPerDay)
                /\ probe_i' = 0
                /\ success_count' = 0
                /\ error_count' = 0
                /\ last_probe' = NoValue
                /\ bot_pc' = "availability_loop"
                /\ UNCHANGED << running, results, now, end_time, report,
                                monitor_results, interrupted, graphVars >>
           ELSE RejectInput
    /\ UNCHANGED serviceVars

\* Mutant of AvailabilityProbe: check_availability catches the interrupt as
\* check_latency does and reports the probes made so far.
AvailabilityProbe_caught(outcome) ==
    /\ bot_pc = "availability_loop"
    /\ probe_i < total_requests
    /\ LET r == test_endpoint(outcome, 0)
       IN  /\ last_probe' = [outcome |-> outcome, result |-> r]
           /\ IF r.raised = "none"
              THEN /\ success_count' =
                        IF Classify(r.status_code) = "success"
                        THEN success_count + 1 ELSE success_count
                   /\ error_count' =
                        IF Classify(r.status_code) = "error"
                        THEN error_count + 1 ELSE error_count
                   /\ probe_i' = probe_i + 1
                   /\ UNCHANGED << running, bot_pc, interrupted, report >>
              ELSE /\ bot_pc' = "pause"
                   /\ interrupted' = (r.raised = "KeyboardInterrupt")
                   /\ report' =
                        IF r.raised = "KeyboardInterrupt"
                        THEN [kind |-> "availability",
                              total_requests |-> probe_i,
                              success_count |-> success_count,
                              error_count |-> error_count,
                              availability_percentage |->
                                 IF success_count + error_count > 0
                                 THEN Rat(success_count * 100,
                                          success_count + error_count)
                                 ELSE Rat(0, 1)]
                        ELSE report
                   /\ UNCHANGED << running, success_count, error_count,
                                   probe_i >>
    /\ UNCHANGED << serviceVars, results, now, end_time, total_requests,
                    monitor_results, choice, typed, graphVars >>

\* check_availability, lines 123-140: one pass of the for loop.  Nothing on
\* the way up catches a KeyboardInterrupt before run() (line 457), which
\* sets running to False; any other exception would be caught by
\* handle_check_availability's "except Exception".
AvailabilityProbe(outcome) ==
    /\ bot_pc = "availability_loop"
    /\ probe_i < total_requests
    /\ LET r == test_endpoint(outcome, 0)
       IN  /\ last_probe' = [outcome |-> outcome, result |-> r]
           /\ IF r.raised = "none"
              THEN /\ success_count' =
                        IF Classify(r.status_code) = "success"
                        THEN success_count + 1 ELSE success_count
                   /\ error_count' =
                        IF Classify(r.status_code) = "error"
                        THEN error_count + 1 ELSE error_count
                   /\ probe_i' = probe_i + 1
                   /\ UNCHANGED << running, bot_pc, interrupted >>
              ELSE /\ IF r.raised = "KeyboardInterrupt"
                      THEN running' = FALSE /\ bot_pc' = "exited"
                      ELSE running' = running /\ bot_pc' = "pause"
                   /\ interrupted' = (r.raised = "KeyboardInterrupt")
                   /\ UNCHANGED << success_count, error_count, probe_i >>
    /\ UNCHANGED << serviceVars, results, now, end_time, total_requests,
                    report, monitor_results, choice, typed, graphVars >>

\* Mutant of AvailabilityResult: every probe is in the denominator.
AvailabilityResult_all(total, successes, errors) ==
    [kind |-> "availability",
     total_requests |-> total,
     success_count |-> successes,
     error_count |-> errors,
     availability_percentage |->
        IF total > 0 THEN Rat(successes * 100, total) ELSE Rat(0, 1)]

\* check_availability, lines 143-157, and the report the handler prints.
AvailabilityResult(total, successes, errors) ==
    LET total_relevant == successes + errors
    IN  [kind |-> "availability",
         total_requests |-> total,
         success_count |-> successes,
         error_count |-> errors,
         availability_percentage |->
            IF total_relevant > 0
            THEN Rat(successes * 100, total_relevant)
            ELSE Rat(0, 1)]

\* check_availability, line 123: the range is used up, the call returns.
AvailabilityReport ==
    /\ bot_pc = "availability_loop"
    /\ ~(probe_i < total_requests)
    /\ report' = AvailabilityResult(total_requests, success_count, error_count)
    /\ bot_pc' = "pause"
    /\ UNCHANGED << serviceVars, running, probeVars, monitor_results, choice,
                    typed, interrupted, graphVars >>

(***************************************************************************)
(* The graph renderer (render_graph and _draw_ascii_graph).                *)
(***************************************************************************)
MaxPoints == 3      \* longest sample list drawn on its own
MaxValue == 3       \* largest sample value drawn on its own

Height == 15

\* The characters of the grid: ' ', the point marker and the connector.
Blank == " "
Point == "*"
Connector == "|"

\* render_graph, lines 168-179: the sample data it generates; range(days)
\* is empty for days <= 0.
render_graph(data_type, days) ==
    [k \in 1..(IF days > 0 THEN days ELSE 0) |->
        LET i == k - 1
        IN  IF data_type = "latency"
            THEN Min(50 + (i * 10) + ((i % 3) * 20), 200)
            ELSE Min(85 + (i * 2) + ((i % 2) * 5), 100)]

\* round(num / den) as Python rounds: to the nearest integer, a tie to the
\* even one (num >= 0, den > 0).
Round(num, den) ==
    LET q == num \div den
        r == num % den
    IN  IF 2 * r < den THEN q
        ELSE IF 2 * r > den THEN q + 1
        ELSE IF q % 2 = 0 THEN q ELSE q + 1

\* Mutant of RowOf: the Y axis is not inverted.
RowOf_upright(value, min_val, max_val) ==
    IF max_val > min_val
    THEN ((Height - 1) * (value - min_val)) \div (max_val - min_val)
    ELSE Height \div 2

\* _draw_ascii_graph, lines 200-204: the row of one sample.  int() drops the
\* fraction of (height - 1) * (1 - normalized), which is never negative;
\* 1 - normalized is (max_val - value) / (max_val - min_val).
RowOf(value, min_val, max_val) ==
    IF max_val > min_val
    THEN ((Height - 1) * (max_val - value)) \div (max_val - min_val)
    ELSE Height \div 2

\* _draw_ascii_graph, line 196: the empty grid, rows 0..height-1 and columns
\* 0..width-1.
BlankGrid(width) ==
    [line_y \in 0..(Height - 1) |-> [x \in 0..(width - 1) |-> Blank]]

\* Mutant of PlotIteration: the connector loop does not test for ' '.
PlotIteration_overwrite(g, d, i) ==
    LET min_val == SeqMin(d)
        max_val == SeqMax(d)
        y == RowOf(d[i + 1], min_val, max_val)
        plotted == [g EXCEPT ![y][i] = Point]
    IN  IF i > 0
        THEN LET prev_y == RowOf(d[i], min_val, max_val)
                 start_y == Min(prev_y, y)
                 end_y == IF prev_y > y THEN prev_y ELSE y
             IN  [line_y \in DOMAIN plotted |->
                    [x \in DOMAIN plotted[line_y] |->
                        IF /\ x = i - 1
                           /\ line_y \in start_y..end_y
                        THEN IF start_y # end_y THEN Connector ELSE Point
                        ELSE plotted[line_y][x]]]
        ELSE plotted

\* _draw_ascii_graph, lines 199-221: pass i of the plotting loop.  The
\* connector loop touches each cell of column i-1 once, so its passes are
\* taken together.
PlotIteration(g, d, i) ==
    LET min_val == SeqMin(d)
        max_val == SeqMax(d)
        y == RowOf(d[i + 1], min_val, max_val)
        plotted == [g EXCEPT ![y][i] = Point]
    IN  IF i > 0
        THEN LET prev_y == RowOf(d[i], min_val, max_val)
                 start_y == Min(prev_y, y)
                 end_y == IF prev_y > y THEN prev_y ELSE y
             IN  [line_y \in DOMAIN plotted |->
                    [x \in DOMAIN plotted[line_y] |->
                        IF /\ x = i - 1
                           /\ line_y \in start_y..end_y
                           /\ plotted[line_y][x] = Blank
                        THEN IF start_y # end_y THEN Connector ELSE Point
                        ELSE plotted[line_y][x]]]
        ELSE plotted

\* The grid _draw_ascii_graph prints for non-empty data.
RECURSIVE PlotFrom(_, _, _)
PlotFrom(g, d, i) ==
    IF i < Len(d) THEN PlotFrom(PlotIteration(g, d, i), d, i + 1) ELSE g

draw_ascii_graph(d) == PlotFrom(BlankGrid(Len(d)), d, 0)

\* run() reads choice "3" (latency) or "4" (availability);
\* handle_render_graph reads the days (default "7") and render_graph builds
\* the data it hands to _draw_ascii_graph.
MenuGraph(data_type, text) ==
    /\ running /\ bot_pc = "menu"
    /\ choice' = IF data_type = "latency" THEN "3" ELSE "4"
    /\ typed' = text
    /\ LET days == ParseInt(InputOr(text, << "7" >>))
       IN  IF days.ok
           THEN /\ graph_data' = render_graph(data_type, days.value)
                /\ bot_pc' = "graph_start"
                /\ UNCHANGED << running, probeVars, report, monitor_results,
                                interrupted, graph, point_i >>
           ELSE RejectInput
    /\ UNCHANGED serviceVars

\* _draw_ascii_graph, lines 185-196: nothing is drawn for empty data.
DrawStart ==
    /\ bot_pc = "graph_start"
    /\ IF graph_data = << >>
       THEN /\ report' = [kind |-> "message", text |-> "No data to display"]
            /\ bot_pc' = "pause"
            /\ UNCHANGED << graph, point_i >>
       ELSE /\ graph' = BlankGrid(Len(graph_data))
            /\ point_i' = 0
            /\ bot_pc' = "graph_plot"
            /\ UNCHANGED report
    /\ UNCHANGED << serviceVars, running, probeVars, monitor_results, choice,
                    typed, interrupted, graph_data >>

\* _draw_ascii_graph, lines 199-221: one pass of the plotting loop.
PlotPoint ==
    /\ bot_pc = "graph_plot"
    /\ point_i < Len(graph_data)
    /\ graph' = PlotIteration(graph, graph_data, point_i)
    /\ point_i' = point_i + 1
    /\ UNCHANGED << serviceVars, running, bot_pc, probeVars, report,
                    monitor_results, choice, typed, interrupted, graph_data >>

\* _draw_ascii_graph, lines 223-247: the grid is printed row by row.
DrawPrint ==
    /\ bot_pc = "graph_plot"
    /\ ~(point_i < Len(graph_data))
    /\ report' = [kind |-> "graph", rows |-> graph]
    /\ bot_pc' = "pause"
    /\ UNCHANGED << serviceVars, running, probeVars, monitor_results, choice,
                    typed, interrupted, graphVars >>

(***************************************************************************)
(* The rest of the menu (MonitoringBot.run).                               *)
(***************************************************************************)
\* How handle_load_test may end: the tool ran (or was not found, both
\* reported), a number was mistyped, the test type was none of 1-3 (the
\* handler returns at once), or Ctrl+C arrived.
LoadTestOutcomes ==
    { "ran", "FileNotFoundError", "ValueError", "invalid_type",
      "KeyboardInterrupt" }

\* run() reads choice "5"; handle_load_test, lines 366-413.
MenuLoadTest(outcome) ==
    /\ running /\ bot_pc = "menu"
    /\ IF outcome = "KeyboardInterrupt"
       THEN /\ running' = FALSE
            /\ bot_pc' = "exited"
            /\ interrupted' = TRUE
            /\ choice' = "5"
            /\ UNCHANGED report
       ELSE IF outcome = "invalid_type"
       THEN UNCHANGED << running, bot_pc, interrupted, choice, report >>
       ELSE /\ bot_pc' = "pause"
            /\ choice' = "5"
            /\ report' = IF outcome = "ValueError" THEN InvalidInput
                         ELSE [kind |-> "message", text |-> outcome]
            /\ UNCHANGED << running, interrupted >>
    /\ UNCHANGED << serviceVars, probeVars, monitor_results, typed,
                    graphVars >>

\* run() reads choice "6"; handle_settings, lines 415-427.
MenuSettings ==
    /\ running /\ bot_pc = "menu"
    /\ choice' = "6"
    /\ report' = [kind |-> "message", text |-> "settings"]
    /\ bot_pc' = "pause"
    /\ UNCHANGED << serviceVars, running, probeVars, monitor_results, typed,
                    interrupted, graphVars >>

\* run(), lines 453-455: any other choice is refused and the menu is shown
\* again.
MenuInvalid ==
    /\ running /\ bot_pc = "menu"
    /\ UNCHANGED vars

\* The handler's closing input("Press Enter to continue..."), then run()'s
\* loop shows the menu again; the locals of the finished call are gone.
Continue ==
    /\ bot_pc = "pause"
    /\ bot_pc' = "menu"
    /\ NoProbeLocals
    /\ report' = NoValue
    /\ choice' = "" /\ typed' = << >> /\ interrupted' = FALSE
    /\ graph_data' = << >> /\ graph' = << >> /\ point_i' = 0
    /\ UNCHANGED << serviceVars, running, monitor_results >>

\* run() reads choice "0".
MenuExit ==
    /\ running /\ bot_pc = "menu"
    /\ running' = FALSE
    /\ bot_pc' = "exited"
    /\ choice' = "0"
    /\ UNCHANGED << serviceVars, probeVars, report, monitor_results, typed,
                    interrupted, graphVars >>

\* run(), lines 457-459: Ctrl+C at the menu prompt or at a handler's closing
\* prompt ends the loop; the interrupt unwinds the handler and its locals.
PromptInterrupt ==
    /\ running /\ bot_pc \in {"menu", "pause"}
    /\ running' = FALSE
    /\ bot_pc' = "exited"
    /\ interrupted' = TRUE
    /\ NoProbeLocals
    /\ graph_data' = << >> /\ graph' = << >> /\ point_i' = 0
    /\ UNCHANGED << serviceVars, report, monitor_results, choice, typed >>

(***************************************************************************)
(* Specifications.                                                         *)
(***************************************************************************)
IdleRequest ==
    /\ pc = "idle" /\ req = NoRequest
    /\ remote = NoValue /\ data = NoValue /\ stats = NoValue
    /\ image_url = NoValue /\ result = NoValue /\ response = NoValue
    /\ exc = "none" /\ steps = << >> /\ log = << >>

IdleBot ==
    /\ running = TRUE /\ bot_pc = "menu"
    /\ results = << >> /\ now = 0 /\ end_time = 0
    /\ total_requests = 0 /\ probe_i = 0
    /\ success_count = 0 /\ error_count = 0
    /\ last_probe = NoValue /\ report = NoValue
    /\ monitor_results = << >>
    /\ choice = "" /\ typed = << >> /\ interrupted = FALSE
    /\ graph_data = << >> /\ graph = << >> /\ point_i = 0

\* The service after a start-up with both settings in the environment.
Served ==
    /\ environ = [k \in SettingKeys |-> StrVal("value")]
    /\ dotenv = [k \in SettingKeys |-> Unset]
    /\ validate_default = TRUE
    /\ settings = [k \in SettingKeys |-> StrVal("value")]
    /\ boot_pc = "serving"

Init ==
    /\ Served
    /\ IdleBot
    /\ stats_table \in Tables
    /\ store_reachable \in BOOLEAN
    /\ image_files \in SUBSET CandidateFiles
    /\ IdleRequest

ServiceNext ==
    \/ \E r \in Requests : Receive(r)
    \/ SearchRemoteGet
    \/ SearchJson
    \/ SearchStats
    \/ SearchImageUrl
    \/ SearchReturn
    \/ ImageAlt
    \/ HealthCheck
    \/ MwReturn
    \/ MwExcept
    \/ StoreFlip

Next == ServiceNext

Spec == Init /\ [][Next]_vars

\* The process from its first import, in any environment.
InitBoot ==
    /\ environ \in [SettingKeys -> SourceValues]
    /\ dotenv \in [SettingKeys -> SourceValues]
    /\ validate_default \in BOOLEAN
    /\ settings = NoSettings
    /\ boot_pc = "config"
    /\ stats_table = << Row(<<"A">>, [i \in 1..6 |-> IntVal(10 * i)]) >>
    /\ store_reachable \in BOOLEAN
    /\ image_files = { PngName(<<"a">>) }
    /\ IdleRequest
    /\ IdleBot

NextBoot ==
    \/ BootConfig
    \/ BootDatabase
    \/ BootLifespan
    \/ ServiceNext

SpecBoot == InitBoot /\ [][NextBoot]_vars

\* The monitoring bot, from its construction, beside a started service.
InitBot ==
    /\ Served
    /\ stats_table = << >>
    /\ store_reachable = TRUE
    /\ image_files = { }
    /\ IdleRequest
    /\ IdleBot

NextBot ==
    \/ \E text \in TypedLines : MenuLatency(text)
    \/ \E o \in ProbeOutcomes, t \in ProbeSeconds : LatencyProbe(o, t)
    \/ \E b \in BOOLEAN : LatencySleep(b)
    \/ LatencyElapsed
    \/ LatencyReport
    \/ \E text \in TypedLines : MenuAvailability(text)
    \/ \E o \in ProbeOutcomes : AvailabilityProbe(o)
    \/ AvailabilityReport
    \/ \E t \in {"latency", "availability"}, text \in TypedLines :
          MenuGraph(t, text)
    \/ DrawStart
    \/ PlotPoint
    \/ DrawPrint
    \/ \E o \in LoadTestOutcomes : MenuLoadTest(o)
    \/ MenuSettings
    \/ MenuInvalid
    \/ Continue
    \/ MenuExit
    \/ PromptInterrupt

SpecBot == InitBot /\ [][NextBot]_vars

\* _draw_ascii_graph on its own, called with any short list of samples.
InitGraph ==
    /\ Served
    /\ stats_table = << >>
    /\ store_reachable = TRUE
    /\ image_files = { }
    /\ IdleRequest
    /\ running = TRUE /\ bot_pc = "graph_start"
    /\ results = << >> /\ now = 0 /\ end_time = 0
    /\ total_requests = 0 /\ probe_i = 0
    /\ success_count = 0 /\ error_count = 0
    /\ last_probe = NoValue /\ report = NoValue
    /\ monitor_results = << >>
    /\ choice = "3" /\ typed = << >> /\ interrupted = FALSE
    /\ graph_data \in SeqsUpTo(0..MaxValue, MaxPoints)
    /\ graph = << >> /\ point_i = 0

NextGraph ==
    \/ DrawStart
    \/ PlotPoint
    \/ DrawPrint

SpecGraph == InitGraph /\ [][NextGraph]_vars

(***************************************************************************)
(* Properties.                                                             *)
(***************************************************************************)
SearchOrder == << "remote_get", "store_query", "image_url" >>

IsSearch == req.route = "search"

\* The rows of the table that match a requested name, by position.
Matching(table, name) ==
    { i \in 1..Len(table) : ILike(Lower(name), table[i]["Name"].v) }

\* C1: a search request makes its calls in the order remote fetch, store
\* lookup, image-URL derivation, each at most once, and makes no store
\* lookup when the remote fetch or the parsing of its body failed.
C1_SearchSequence ==
    IsSearch =>
        /\ \E k \in 0..3 : steps = SubSeq(SearchOrder, 1, k)
        /\ exc \in {"ConnectError", "JSONDecodeError"} =>
               \A k \in 1..Len(steps) : steps[k] # "store_query"

C1_Witness ==
    /\ IsSearch /\ pc = "done"
    /\ steps = SearchOrder
    /\ response.status = 200

\* C2: the stats list is empty exactly when no row matches, and otherwise
\* holds the six columns HP, Attack, Defense, Sp. Atk, Sp. Def, Speed of the
\* first matching row; rows after the first match change nothing.
C2_FirstRowStats ==
    (IsSearch /\ stats # NoValue) =>
        LET m == Matching(stats_table, req.name)
        IN  /\ Len(stats) \in {0, 6}
            /\ (m = {}) <=> (stats = << >>)
            /\ m # {} =>
                 LET first == CHOOSE i \in m : \A j \in m : i <= j
                     row == stats_table[first]
                 IN  /\ stats = << row["HP"], row["Attack"], row["Defense"],
                                   row["Sp. Atk"], row["Sp. Def"], row["Speed"] >>
                     /\ stats = get_stats_from_db(SubSeq(stats_table, 1, first),
                                                  req.name)

C2_Witness ==
    /\ IsSearch /\ stats # NoValue
    /\ Len(stats) = 6
    /\ Cardinality(Matching(stats_table, req.name)) = 2
    /\ stats_table[1] # stats_table[2]

\* The remote fetch succeeded: a 2xx answer whose body is a document with a
\* name field.
RemoteFetchSucceeded ==
    /\ remote # NoValue
    /\ Is2xx(remote.status)
    /\ remote.body.kind = "json"
    /\ "name" \in DOMAIN remote.body.doc

\* C3: when the remote fetch succeeded and the store answered that no row
\* matches, the search is answered 200 with an empty stats list.
C3_NoRowStillSucceeds ==
    (/\ IsSearch /\ pc = "done"
     /\ RemoteFetchSucceeded
     /\ stats # NoValue
     /\ Matching(stats_table, req.name) = {}) =>
        /\ response.status = 200
        /\ response.body.stats = << >>
        /\ exc = "none"

C3_Witness ==
    /\ IsSearch /\ pc = "done"
    /\ RemoteFetchSucceeded
    /\ stats_table # << >>
    /\ Matching(stats_table, req.name) = {}
    /\ response.status = 200
    /\ response.body.stats = << >>

\* C4: a remote answer that is not 2xx, or whose body is not valid JSON,
\* makes the search fail with an exception and a 500 answer.
C4_RemoteErrorFails ==
    (/\ IsSearch /\ pc = "done"
     /\ remote # NoValue
     /\ (~Is2xx(remote.status) \/ remote.body.kind # "json")) =>
        /\ exc # "none"
        /\ response.status = 500

\* C5: a search for a name the remote API does not know is answered 404 or
\* 400.
C5_InvalidNameIs404 ==
    (/\ IsSearch /\ pc = "done"
     /\ Lower(req.name) \notin Pokedex) =>
        response.status \in {404, 400}

\* C6: image-alt answers 200 with the image/png file when the file named by
\* the lowered name exists, and otherwise 404 with detail "Image not found";
\* names that differ only in case get the same answer.
C6_ImageAltLookup ==
    (req.route = "image-alt" /\ pc = "done") =>
        LET filename == Lower(req.name) \o << ".png" >>
        IN  /\ filename \in image_files =>
                /\ response.status = 200
                /\ response.media_type = "image/png"
                /\ response.body = filename
            /\ filename \notin image_files =>
                /\ response.status = 404
                /\ response.body = [detail |-> "Image not found"]
            /\ \A n \in Names :
                 Lower(n) = Lower(req.name) =>
                    get_image_fallback(image_files, n) = response

C6_Witness ==
    /\ req.route = "image-alt" /\ pc = "done"
    /\ req.name # Lower(req.name)
    /\ req.name \o << ".png" >> \notin image_files
    /\ response.status = 200

\* C7: the health answer is always 200, and at the step where health_check
\* runs its status is "healthy" if the store is reachable and "unhealthy",
\* with an error field, if it is not.
C7_HealthFollowsStore ==
    [][(pc = "health" /\ pc' = "mw_return") =>
          /\ result'.status = 200
          /\ store_reachable => result'.body.status = "healthy"
          /\ ~store_reachable =>
                /\ result'.body.status = "unhealthy"
                /\ "error" \in DOMAIN result'.body]_vars

RECURSIVE Count(_, _)
Count(s, x) ==
    IF s = << >> THEN 0
    ELSE (IF Head(s) = x THEN 1 ELSE 0) + Count(Tail(s), x)

\* C8: a request's log starts with its one "Incoming request" line; while
\* the handler runs there is no terminal line; when the request is over there
\* is exactly one terminal line, the last one: "Request completed" if
\* call_next returned a response, "Request failed" if it raised, and then
\* the exception went on to the server's 500 answer.
C8_OneEntryOneExit ==
    pc # "idle" =>
        /\ Count(log, "Incoming request") = 1
        /\ log[1] = "Incoming request"
        /\ pc # "done" =>
              Count(log, "Request completed") + Count(log, "Request failed") = 0
        /\ pc = "done" =>
              /\ Count(log, "Request completed") + Count(log, "Request failed") = 1
              /\ exc = "none" =>
                    /\ log[Len(log)] = "Request completed"
                    /\ response = result
              /\ exc # "none" =>
                    /\ log[Len(log)] = "Request failed"
                    /\ result = NoValue
                    /\ response.status = 500

C8_Witness ==
    /\ pc = "done"
    /\ exc = "JSONDecodeError"
    /\ log = << "Incoming request", "Request failed" >>

\* A required setting that neither the process environment nor the env_file
\* holds.
SettingAbsent ==
    \E k \in SettingKeys : environ[k] = Unset /\ dotenv[k] = Unset

\* C9: with a required setting absent, start-up ends in failure and never
\* gets past the building of the client; the service serves, and takes a
\* request, only with both settings holding a value.
C9_FailFast ==
    /\ SettingAbsent => boot_pc \in {"config", "database", "failed"}
    /\ (boot_pc = "serving" \/ pc # "idle") =>
          /\ boot_pc = "serving"
          /\ \A k \in SettingKeys : settings[k].t = "str" /\ settings[k].v # ""

C9_Witness ==
    /\ SettingAbsent
    /\ ~validate_default
    /\ settings # NoSettings
    /\ boot_pc = "failed"

\* C10: a probe whose transport failed comes back as a result with status
\* 500 and success false, nothing is raised, the sample is counted and the
\* sampling loop goes on; every result has success exactly when its status
\* is 200.
C10_ProbeNeverRaises ==
    /\ \A k \in 1..Len(results) :
          results[k].success <=> (results[k].status_code = 200)
    /\ last_probe # NoValue =>
          LET o == last_probe.outcome
              r == last_probe.result
          IN  /\ r.raised = "none" => (r.success <=> (r.status_code = 200))
              /\ o.kind = "RequestException" =>
                    /\ r.raised = "none"
                    /\ r.status_code = 500
                    /\ ~r.success
                    /\ running
                    /\ bot_pc \in {"latency_sleep", "latency_loop",
                                   "latency_report", "availability_loop", "pause"}
                    /\ bot_pc \in {"latency_sleep", "latency_loop", "latency_report"} =>
                          results[Len(results)] = RequestResult(r)
                    /\ bot_pc = "availability_loop" => error_count >= 1

C10_Witness ==
    /\ bot_pc = "availability_loop"
    /\ last_probe # NoValue
    /\ last_probe.outcome.kind = "RequestException"
    /\ probe_i >= 2 /\ probe_i < total_requests
    /\ error_count = probe_i

\* A step in which Ctrl+C reaches check_latency's sampling loop.
LatencyInterrupted ==
    /\ bot_pc \in {"latency_loop", "latency_sleep"}
    /\ ~interrupted
    /\ interrupted'

\* C11, as claimed: whenever check_latency was interrupted, a report of
\* exactly the samples gathered so far is printed, total_requests being the
\* number of completed probes.
C11_InterruptAlwaysReports ==
    (choice = "1" /\ interrupted /\ bot_pc = "pause") =>
        /\ report # NoValue
        /\ report.total_requests = Len(results)

\* C11, amended: an interrupt during a probe or during the sleep between
\* probes ends the sampling without failing the call and without touching
\* the samples; if at least one probe had completed, the report printed is
\* the one computed from exactly those samples, and if none had, the result
\* is empty and no report is printed.
C11_InterruptReportsSamples ==
    /\ [](/\ (choice = "1" /\ interrupted /\ bot_pc # "exited") =>
                /\ running
                /\ bot_pc \in {"latency_report", "pause"}
          /\ (choice = "1" /\ interrupted /\ bot_pc = "pause") =>
                IF results # << >>
                THEN /\ report = LatencyResult(results)
                     /\ report.total_requests = Len(results)
                ELSE report = NoValue)
    /\ [][LatencyInterrupted =>
            /\ running'
            /\ bot_pc' = "latency_report"
            /\ results' = results]_vars

C11_Witness ==
    /\ choice = "1" /\ interrupted /\ bot_pc = "pause"
    /\ Len(results) = 2
    /\ report # NoValue
    /\ report.total_requests = 2

\* C12: the availability reported is 100 * success_count / (success_count +
\* error_count), probes classified "other" staying out of the denominator,
\* and 0 when no probe was a success or an error; it lies within [0, 100].
\* 8 successes and 2 errors give 80; 8 successes and 2 others give 100.
C12_AvailabilityRatio ==
    /\ (report # NoValue /\ report.kind = "availability") =>
          LET a == report.availability_percentage
              total_relevant == report.success_count + report.error_count
          IN  /\ bot_pc = "pause" =>
                    /\ report.success_count = success_count
                    /\ report.error_count = error_count
              /\ a.den > 0
              /\ total_relevant > 0 =>
                    a.num * total_relevant =
                        100 * report.success_count * a.den
              /\ total_relevant = 0 => a.num = 0
              /\ 0 <= a.num /\ a.num <= 100 * a.den
    /\ LET a == AvailabilityResult(10, 8, 2).availability_percentage
       IN  a.num = 80 * a.den
    /\ LET a == AvailabilityResult(10, 8, 0).availability_percentage
       IN  a.num = 100 * a.den

C12_Witness ==
    /\ bot_pc = "pause"
    /\ report # NoValue /\ report.kind = "availability"
    /\ success_count = 3 /\ error_count = 1
    /\ probe_i > success_count + error_count
    /\ report.availability_percentage.num = 75 * report.availability_percentage.den

\* A step of check_availability's loop in which a probe came back answered.
ProbeAnswered ==
    /\ bot_pc = "availability_loop"
    /\ probe_i' = probe_i + 1
    /\ last_probe'.outcome.kind = "response"

\* C13, as claimed: every probe answered with a 2xx status, 201 or 204 as
\* well as 200, increases the success count of the availability ratio.
C13_Every2xxCounts ==
    [][(/\ ProbeAnswered
        /\ last_probe'.outcome.status_code >= 200
        /\ last_probe'.outcome.status_code < 300) =>
            success_count' = success_count + 1]_vars

\* C13, amended: in the availability ratio only a probe answered with status
\* 200 counts as successful and only one answered with a status >= 500 as an
\* error; a probe answered with any other status, 201 or 204 included,
\* changes neither count.
C13_Only200Counts ==
    [][ProbeAnswered =>
            LET status_code == last_probe'.outcome.status_code
            IN  /\ success_count' =
                      IF status_code = 200 THEN success_count + 1
                      ELSE success_count
                /\ error_count' =
                      IF status_code >= 500 THEN error_count + 1
                      ELSE error_count]_vars

C13_Witness ==
    /\ bot_pc = "availability_loop"
    /\ last_probe # NoValue
    /\ last_probe.outcome.kind = "response"
    /\ last_probe.outcome.status_code = 201
    /\ probe_i = 2 /\ success_count = 1 /\ error_count = 0

\* The grid exists and columns 0..point_i-1 of it are plotted.
Drawing == bot_pc \in {"graph_plot", "pause"} /\ graph_data # << >>

\* C14: with max > min, every sample v is plotted at row
\* round((H-1) * (1 - (v - min)/(max - min))), H = 15.
C14_RowIsRounded ==
    (Drawing /\ SeqMax(graph_data) > SeqMin(graph_data)) =>
        \A x \in 0..(point_i - 1) :
            LET max_val == SeqMax(graph_data)
                min_val == SeqMin(graph_data)
                value == graph_data[x + 1]
            IN  graph[Round((Height - 1) * (max_val - value),
                            max_val - min_val)][x] = Point

\* C15: for non-empty samples the grid has 15 rows and len(samples)
\* columns; every occurrence of the minimum is plotted in row 14, every
\* occurrence of the maximum in row 0, and when all samples are equal every
\* point is plotted in row 7; every point lies in a row of 0..14.  Samples
\* [10, 20, 10] take 3 columns with points in rows 14, 0 and 14.
C15_GridShape ==
    /\ Drawing =>
          /\ DOMAIN graph = 0..14
          /\ \A line_y \in 0..14 :
                DOMAIN graph[line_y] = 0..(Len(graph_data) - 1)
          /\ \A x \in 0..(point_i - 1) :
                LET max_val == SeqMax(graph_data)
                    min_val == SeqMin(graph_data)
                    value == graph_data[x + 1]
                IN  /\ \E line_y \in 0..14 : graph[line_y][x] = Point
                    /\ (max_val > min_val /\ value = min_val) =>
                          graph[14][x] = Point
                    /\ (max_val > min_val /\ value = max_val) =>
                          graph[0][x] = Point
                    /\ max_val = min_val => graph[7][x] = Point
    /\ LET g == draw_ascii_graph(<< 10, 20, 10 >>)
       IN  /\ DOMAIN g = 0..14
           /\ \A line_y \in 0..14 : DOMAIN g[line_y] = 0..2
           /\ g[14][0] = Point /\ g[0][1] = Point /\ g[14][2] = Point

C15_Witness ==
    /\ bot_pc = "pause"
    /\ report # NoValue /\ report.kind = "graph"
    /\ graph_data = << 0, 3, 0 >>
    /\ point_i = 3
    /\ graph[14][0] = Point /\ graph[0][1] = Point /\ graph[14][2] = Point

\* The typed lines that are no number.
NonNumericLines == { <<"x">>, <<"1", "x">>, <<"-">> }

\* A latency, availability or graph action was chosen and the line typed for
\* its duration or days is no number.
BadNumberTyped ==
    /\ bot_pc # "menu"
    /\ choice \in {"1", "2", "3", "4"}
    /\ typed \in NonNumericLines

\* C16: a non-numeric duration or number of days aborts the latency,
\* availability or graph action before any probe is made or any data drawn:
\* the invalid-input message is printed, the bot is still running, and
\* unless the operator interrupts the closing prompt the next step is back
\* at the main menu with running true.
C16_BadInputAborts ==
    /\ [](BadNumberTyped =>
            /\ bot_pc \in {"pause", "exited"}
            /\ bot_pc = "pause" => running
            /\ report = InvalidInput
            /\ last_probe = NoValue
            /\ results = << >> /\ probe_i = 0
            /\ graph_data = << >> /\ graph = << >>)
    /\ [][(BadNumberTyped /\ bot_pc = "pause" /\ ~interrupted') =>
            (bot_pc' = "menu" /\ running')]_vars

C16_Witness ==
    /\ bot_pc = "pause"
    /\ choice = "2"
    /\ typed = <<"1", "x">>
    /\ report = InvalidInput
    /\ running

\* The phase of the bot's cycle a position of run() belongs to.
Phase(p) ==
    CASE p = "menu" -> "Idle"
      [] p = "pause" -> "Reporting"
      [] p = "exited" -> "Exited"
      [] OTHER -> "Sampling"

\* C17: the bot cycles Idle -> Sampling -> Reporting -> Idle: sampling starts
\* only from the menu, a report follows only sampling or an action that
\* samples nothing, and after the report the bot is back at the menu with
\* running true unless the operator interrupts; running turns false only on
\* selection "0" or on an interrupt; nothing of a finished check is kept at
\* the menu and APIMonitor.results stays empty.
C17_MenuCycle ==
    /\ [](/\ monitor_results = << >>
          /\ running <=> (bot_pc # "exited")
          /\ bot_pc = "menu" =>
                /\ results = << >> /\ last_probe = NoValue
                /\ report = NoValue
                /\ probe_i = 0 /\ success_count = 0 /\ error_count = 0)
    /\ [][/\ (running /\ ~running') =>
                \/ (bot_pc = "menu" /\ choice' = "0" /\ ~interrupted')
                \/ interrupted'
          /\ (Phase(bot_pc') = "Sampling") =>
                Phase(bot_pc) \in {"Idle", "Sampling"}
          /\ (Phase(bot_pc) = "Sampling" /\ ~interrupted') =>
                Phase(bot_pc') \in {"Sampling", "Reporting"}
          /\ (Phase(bot_pc) = "Reporting" /\ ~interrupted') =>
                (bot_pc' = "menu" /\ running')
          /\ Phase(bot_pc) = "Exited" => Phase(bot_pc') = "Exited"]_vars

C17_Witness ==
    /\ bot_pc = "pause" /\ running
    /\ choice = "1" /\ ~interrupted
    /\ Len(results) = 2
    /\ report # NoValue /\ report.kind = "latency"
    /\ monitor_results = << >>

\* The latencies of the collected samples.
Latencies == [k \in 1..Len(results) |-> results[k].response_time]

\* v is the k-th smallest of the values of s.
IsKthSmallest(s, v, k) ==
    /\ \E j \in 1..Len(s) : s[j] = v
    /\ Cardinality({j \in 1..Len(s) : s[j] < v}) <= k - 1
    /\ Cardinality({j \in 1..Len(s) : s[j] <= v}) >= k

RECURSIVE SumTo(_, _)
SumTo(s, k) == IF k = 0 THEN 0 ELSE SumTo(s, k - 1) + s[k]

\* C18: for a non-empty list of samples the latency report has
\* total_requests = their number, avg_latency = their arithmetic mean,
\* median_latency = their median (the mean of the two middle values for an
\* even count), min_latency and max_latency = their extremes and
\* success_rate = 100 * (samples with status 200) / total; so min <= median
\* <= max, min <= avg <= max and 0 <= success_rate <= 100.  Latencies
\* [10, 20, 30] give mean 20, median 20, min 10, max 30.
C18_LatencyStatistics ==
    /\ (bot_pc = "pause" /\ report # NoValue /\ report.kind = "latency") =>
          LET n == Len(results)
              s == Latencies
              avg == report.avg_latency
              med == report.median_latency
              rate == report.success_rate
          IN  /\ n > 0
              /\ report.total_requests = n
              /\ avg.den > 0 /\ avg.num * n = SumTo(s, n) * avg.den
              /\ med.den > 0
              /\ IF n % 2 = 1
                 THEN \E j \in 1..n :
                         /\ IsKthSmallest(s, s[j], (n + 1) \div 2)
                         /\ med.num = s[j] * med.den
                 ELSE \E i, j \in 1..n :
                         /\ IsKthSmallest(s, s[i], n \div 2)
                         /\ IsKthSmallest(s, s[j], n \div 2 + 1)
                         /\ 2 * med.num = (s[i] + s[j]) * med.den
              /\ IsKthSmallest(s, report.min_latency, 1)
              /\ IsKthSmallest(s, report.max_latency, n)
              /\ rate.den > 0
              /\ rate.num * n =
                    100 * rate.den *
                    Cardinality({k \in 1..n : results[k].status_code = 200})
              /\ report.min_latency * med.den <= med.num
              /\ med.num <= report.max_latency * med.den
              /\ report.min_latency * avg.den <= avg.num
              /\ avg.num <= report.max_latency * avg.den
              /\ 0 <= rate.num /\ rate.num <= 100 * rate.den
    /\ LET r == LatencyResult(
                   [k \in 1..3 |-> [status_code |-> 200,
                                    response_time |-> 10 * k,
                                    success |-> TRUE]])
       IN  /\ r.avg_latency.num = 20 * r.avg_latency.den
           /\ r.median_latency.num = 20 * r.median_latency.den
           /\ r.min_latency = 10 /\ r.max_latency = 30

C18_Witness ==
    /\ bot_pc = "pause"
    /\ report # NoValue /\ report.kind = "latency"
    /\ Latencies = << 0, 28000, 0 >>
    /\ report.median_latency.num = 0
    /\ report.max_latency = 28000
    /\ 3 * report.avg_latency.num = 28000 * report.avg_latency.den

\* The days handed to check_availability for the line typed.
DaysTyped == ParseInt(InputOr(typed, << "1" >>)).value

\* C19: check_availability issues exactly min(100, 50 * days) probes, each
\* probe is a success, an error or an other, and the total_requests it
\* reports is the number of probes issued, so success_count + error_count
\* <= total_requests, for every integer days.
C19_TotalIsProbesIssued ==
    (bot_pc = "pause" /\ report # NoValue /\ report.kind = "availability") =>
        /\ probe_i = Min(100, 50 * DaysTyped)
        /\ report.total_requests = probe_i
        /\ success_count >= 0 /\ error_count >= 0
        /\ success_count + error_count <= report.total_requests

\* The minutes handed to check_latency for the line typed.
DurationTyped == ParseInt(InputOr(typed, << "5" >>)).value

\* A step of check_latency's loop that starts a probe: a sample is added or
\* the probe is interrupted.
ProbeStarted ==
    /\ bot_pc = "latency_loop"
    /\ \/ Len(results') = Len(results) + 1
       \/ LatencyInterrupted

\* C20: check_latency starts a probe only while the time is before start +
\* duration_minutes * 60 (start is 0); after every probe that returns it
\* sleeps 2 seconds before the condition is checked again, so the time at
\* the check is at least 2 seconds per sample; once the duration has elapsed
\* the only step is to leave the loop; with duration_minutes <= 0 no probe
\* is made, the result is empty and no report is printed.
C20_LatencyLoopTiming ==
    /\ [](/\ bot_pc \in {"latency_loop", "latency_sleep", "latency_report"} =>
                end_time = DurationTyped * 60
          /\ bot_pc = "latency_loop" => now >= 2 * Len(results)
          /\ bot_pc = "latency_sleep" => now >= 2 * (Len(results) - 1)
          /\ (choice = "1" /\ typed \in {<<"0">>, <<"-", "1">>}
                /\ bot_pc # "menu") =>
                /\ results = << >> /\ last_probe = NoValue
                /\ report = NoValue
                /\ bot_pc \in {"latency_loop", "latency_report", "pause",
                               "exited"})
    /\ [][/\ ProbeStarted => now < end_time
          /\ (bot_pc = "latency_loop" /\ Len(results') = Len(results) + 1) =>
                bot_pc' = "latency_sleep"
          /\ (bot_pc = "latency_sleep" /\ ~interrupted') =>
                (now' = now + 2 /\ bot_pc' = "latency_loop"
                    /\ results' = results)
          /\ (bot_pc = "latency_loop" /\ ~(now < end_time)) =>
                (bot_pc' = "latency_report" /\ results' = results
                    /\ ~interrupted')]_vars

C20_Witness ==
    /\ bot_pc = "latency_report"
    /\ ~interrupted
    /\ end_time = 60 /\ now >= end_time
    /\ Len(results) = 2

\* The row of the sample in column x of the data being drawn.
SampleRow(x) ==
    RowOf(graph_data[x + 1], SeqMin(graph_data), SeqMax(graph_data))

\* C21: every plotted column holds exactly one point marker, in the row of
\* its sample, and no step replaces a point marker; for consecutive samples
\* whose rows differ, the earlier point's column holds a connector in every
\* row strictly between the two rows and in the later point's row, and
\* nothing else; a column whose successor is in the same row or is not yet
\* plotted, the last column of the finished graph among them, holds only its
\* point marker.
C21_PointsAndConnectors ==
    /\ [](Drawing =>
            \A x \in 0..(point_i - 1) :
                LET y == SampleRow(x)
                    joined == x + 1 < point_i /\ SampleRow(x + 1) # y
                    next_y == IF x + 1 < point_i THEN SampleRow(x + 1) ELSE y
                    start_y == IF next_y < y THEN next_y ELSE y
                    end_y == IF next_y < y THEN y ELSE next_y
                IN  /\ {line_y \in 0..14 : graph[line_y][x] = Point} = {y}
                    /\ \A line_y \in 0..14 :
                          line_y # y =>
                             graph[line_y][x] =
                                IF joined /\ line_y \in start_y..end_y
                                THEN Connector ELSE Blank)
    /\ [][(Drawing /\ Drawing') =>
            \A line_y \in 0..14, x \in 0..(Len(graph_data) - 1) :
                graph[line_y][x] = Point => graph'[line_y][x] = Point]_vars

C21_Witness ==
    /\ bot_pc = "pause"
    /\ report # NoValue /\ report.kind = "graph"
    /\ graph_data = << 0, 3, 1 >>
    /\ point_i = 3
    /\ graph[14][0] = Point /\ graph[0][0] = Connector
    /\ graph[0][1] = Point /\ graph[9][1] = Connector
    /\ graph[10][1] = Blank
    /\ graph[9][2] = Point /\ graph[0][2] = Blank

\* A step in which Ctrl+C reaches check_availability's probing loop.
AvailabilityInterrupted ==
    /\ bot_pc = "availability_loop"
    /\ ~interrupted
    /\ interrupted'

\* C22: an interrupt while check_availability is probing is caught neither
\* by check_availability nor by handle_check_availability: no report of the
\* probes already made is produced and run() sets running to false and ends
\* the bot; the same interrupt during check_latency leaves the bot running,
\* goes on to the report and the closing prompt, and from there back to the
\* menu.
C22_InterruptEndsAvailability ==
    /\ []((/\ choice = "2"
           /\ last_probe # NoValue
           /\ last_probe.outcome.kind = "KeyboardInterrupt") =>
              /\ ~running
              /\ bot_pc = "exited"
              /\ report = NoValue)
    /\ [][/\ AvailabilityInterrupted =>
                /\ ~running'
                /\ bot_pc' = "exited"
                /\ report' = NoValue
                /\ UNCHANGED << probe_i, success_count, error_count >>
          /\ LatencyInterrupted =>
                (running' /\ bot_pc' = "latency_report")
          /\ (choice = "1" /\ interrupted /\ bot_pc = "latency_report") =>
                (running' /\ bot_pc' = "pause")
          /\ (choice = "1" /\ interrupted /\ bot_pc = "pause"
                /\ ~interrupted') =>
                (running' /\ bot_pc' = "menu")]_vars

C22_Witness ==
    /\ choice = "2"
    /\ bot_pc = "exited" /\ ~running
    /\ interrupted
    /\ last_probe # NoValue
    /\ last_probe.outcome.kind = "KeyboardInterrupt"
    /\ probe_i = 2 /\ success_count = 1
    /\ report = NoValue

====
